---- MODULE Spec2Model ----
(***************************************************************************)
(* Model of src/app.py: the sent-mail polling loop (monitor_emails), the   *)
(* checkpoint file (get_last_processed_id / save_last_processed_id), the   *)
(* field extraction (extract_email_data) and the spreadsheet append        *)
(* (update_spreadsheet).                                                   *)
(*                                                                         *)
(* Text values are sequences of one-character strings, so that str.strip() *)
(* and str.lower() are computed and not assumed.  Python's None and an     *)
(* absent file are the one-element sequences None and NoFile, whose only   *)
(* element is not a character.                                             *)
(***************************************************************************)
EXTENDS Integers, Sequences, FiniteSets, TLC

\* ------------------------------------------------------------------ bounds
MaxMsgs == 2        \* sent messages that ever appear in the mailbox
MaxCrashes == 1     \* process kills during one behaviour
MaxSheetRows == 3   \* rows of the sheets enumerated for update_spreadsheet

\* ------------------------------------------------------------- text values
None == <<"<None>">>
NoFile == <<"<NoFile>">>
Whitespace == {" ", "\t", "\n"}

RECURSIVE LStrip(_)
LStrip(s) ==
    IF s = <<>> THEN s
    ELSE IF Head(s) \in Whitespace THEN LStrip(Tail(s)) ELSE s

RECURSIVE RStrip(_)
RStrip(s) ==
    IF s = <<>> THEN s
    ELSE IF s[Len(s)] \in Whitespace THEN RStrip(SubSeq(s, 1, Len(s) - 1)) ELSE s

\* str.strip()
Strip(s) == RStrip(LStrip(s))

LowerChar(c) ==
    CASE c = "T" -> "t"
      [] c = "O" -> "o"
      [] c = "C" -> "c"
      [] c = "F" -> "f"
      [] OTHER -> c

\* str.lower()
Lower(s) == [i \in 1..Len(s) |-> LowerChar(s[i])]

Digits == <<"1", "2", "3", "4", "5", "6", "7", "8", "9">>
\* the id of the k-th message sent from the mailbox (opaque, unique, no blanks)
MsgId(k) == <<"m", Digits[k]>>

\* ------------------------------------------------------------ spreadsheet
\* A sheet is a sequence of rows, a row a sequence of cells (columns A, B, ...),
\* a cell a text value; <<>> is the empty cell / the empty row.
RECURSIVE DropTrailing(_, _)
DropTrailing(s, e) ==
    IF s = <<>> THEN s
    ELSE IF s[Len(s)] = e THEN DropTrailing(SubSeq(s, 1, Len(s) - 1), e) ELSE s

\* mutant of ReadRange: the range starts below the header ('Hold Grid!A2:F')
ReadRangeFromRow2(sh) ==
    DropTrailing([i \in 1..(IF Len(sh) = 0 THEN 0 ELSE Len(sh) - 1) |->
                    DropTrailing(sh[i + 1], <<>>)],
                 <<>>)

\* spreadsheets().values().get(range='Hold Grid!A:F'): columns A..F of every
\* row, without trailing empty cells and without trailing empty rows
ReadRange(sh) ==
    DropTrailing([i \in 1..Len(sh) |->
                    DropTrailing(SubSeq(sh[i], 1, IF Len(sh[i]) < 6 THEN Len(sh[i]) ELSE 6),
                                 <<>>)],
                 <<>>)

\* mutant of RowHasEmail: the cell is tested without strip()
RowHasEmailNoStrip(row) == row # <<>> /\ row[1] # <<>>

\* `row and row[0].strip()`
RowHasEmail(row) == row # <<>> /\ Strip(row[1]) # <<>>

RECURSIVE ScanRows(_, _, _)
ScanRows(values, k, n) ==
    IF k > Len(values) THEN n
    ELSE IF RowHasEmail(values[k]) THEN ScanRows(values, k + 1, n + 1) ELSE n

\* mutant of NextRow: the counter starts at 0, forgetting the 1-indexed rows
NextRowFromZero(current_values) == ScanRows(current_values, 1, 0)

\* next_row after the for loop: starts at 1, one more per leading row with an email
NextRow(current_values) == ScanRows(current_values, 1, 1)

Cell(row, c) == IF c <= Len(row) THEN row[c] ELSE <<>>

\* mutant of UpdateRange: the range is A{n}:F{n} and column F is written empty
UpdateRangeAF(sh, n, vals) ==
    LET len == IF n > Len(sh) THEN n ELSE Len(sh)
    IN  [i \in 1..len |-> IF i = n THEN vals \o << <<>> >>
                          ELSE IF i <= Len(sh) THEN sh[i] ELSE <<>>]

\* spreadsheets().values().update(range='Hold Grid!A{n}:E{n}', body={'values': [vals]})
UpdateRange(sh, n, vals) ==
    LET old == IF n <= Len(sh) THEN sh[n] ELSE <<>>
        wid == IF Len(old) > 5 THEN Len(old) ELSE 5
        new == [c \in 1..wid |-> IF c <= Len(vals) THEN vals[c] ELSE Cell(old, c)]
        len == IF n > Len(sh) THEN n ELSE Len(sh)
    IN  [i \in 1..len |-> IF i = n THEN new ELSE IF i <= Len(sh) THEN sh[i] ELSE <<>>]

\* --------------------------------------------------------------- messages
\* A full message: id, payload.headers (ordered name/value pairs),
\* payload.body.data (NoData when the key is absent) and payload.parts (NoParts
\* when the key is absent, else the body.data of each part in order).
NoData == "<NoData>"
NoParts == <<"<NoParts>">>
DecodeError == "<DecodeError>"

Hdr(n, v) == [name |-> n, value |-> v]
ToHeaders == <<Hdr(<<"T", "o">>, <<"a">>)>>
MixedHeaders ==
    <<Hdr(<<"F", "r", "o", "m">>, <<"z">>), Hdr(<<"T", "O">>, <<"b">>),
      Hdr(<<"t", "o">>, <<"c">>)>>
NoToHeaders == <<Hdr(<<"F", "r", "o", "m">>, <<"z">>), Hdr(<<"C", "c">>, <<"a">>)>>

\* the shapes of message the mailbox hands out (without the id)
Shape(h, d, p) == [headers |-> h, data |-> d, parts |-> p]
MsgShapes ==
    { Shape(ToHeaders, "aGk", NoParts),            \* direct payload
      Shape(MixedHeaders, NoData, <<"aGk", "Ynll">>), \* multi-part
      Shape(NoToHeaders, "aGk", NoParts),          \* no recipient header
      Shape(ToHeaders, NoData, NoParts),           \* neither payload nor parts
      Shape(ToHeaders, "%%", NoParts),             \* payload that does not decode
      Shape(ToHeaders, NoData, <<NoData, "aGk">>) } \* first part without data

NoMsg == [id |-> None, headers |-> <<>>, data |-> NoData, parts |-> NoParts]
Msg(i, sh) == [id |-> i, headers |-> sh.headers, data |-> sh.data, parts |-> sh.parts]

\* base64.urlsafe_b64decode(data).decode('utf-8')
B64Decode(d) ==
    CASE d = "aGk" -> "hi"
      [] d = "Ynll" -> "bye"
      [] OTHER -> DecodeError

\* mutant of Recipient: next(..., '') instead of next(...)
RecipientOrEmpty(m) ==
    IF \E k \in 1..Len(m.headers) : m.headers[k].name \in {<<"T", "o">>, <<"t", "o">>}
    THEN <<"a">> ELSE <<>>

RECURSIVE FirstTo(_, _)
\* next(header['value'] for header in headers if header['name'].lower() == 'to');
\* None stands for the StopIteration of an exhausted generator
FirstTo(headers, k) ==
    IF k > Len(headers) THEN None
    ELSE IF Lower(headers[k].name) = <<"t", "o">> THEN headers[k].value
    ELSE FirstTo(headers, k + 1)

Recipient(m) == FirstTo(m.headers, 1)

\* mutant of DecodeBody: parts[-1] in place of parts[0]
DecodeBodyLastPart(m) ==
    IF m.data # NoData THEN B64Decode(m.data)
    ELSE IF m.parts = NoParts \/ m.parts = <<>> THEN DecodeError
    ELSE IF m.parts[Len(m.parts)] = NoData THEN DecodeError
    ELSE B64Decode(m.parts[Len(m.parts)])

\* lines 187-196: the text of the body, or DecodeError for any exception there
\* (KeyError 'parts', KeyError 'data', a payload that does not decode)
DecodeBody(m) ==
    IF m.data # NoData THEN B64Decode(m.data)
    ELSE IF m.parts = NoParts \/ m.parts = <<>> THEN DecodeError
    ELSE IF m.parts[1] = NoData THEN DecodeError
    ELSE B64Decode(m.parts[1])

\* ------------------------------------------------------------- extraction
\* The text the model returns: not JSON ("text"), JSON that is no object
\* ("array"), or a JSON object with some of the four keys.
Keys == {"email", "city", "venue", "dates"}
Response(k, ks) == [kind |-> k, keys |-> ks]
NoResponse == Response("none", {})
Responses ==
    { Response("text", {}), Response("array", {}) }
    \cup { Response("object", ks) : ks \in { Keys } \cup { Keys \ {k} : k \in Keys } }

FieldValue(k) ==
    CASE k = "email" -> <<"e">>
      [] k = "city" -> <<"A">>
      [] k = "venue" -> <<"V">>
      [] OTHER -> <<"1", " ", "&", " ", "2">>

\* json.loads(content) raises JSONDecodeError exactly when the text is no JSON
JsonLoads(r) == [ok |-> r.kind # "text", value |-> r]

Contacted == <<"C", "O", "N", "T", "A", "C", "T", "E", "D">>
NoRow == <<>>

\* extracted_data[k] raises (KeyError, TypeError) unless the value is an object with k
CanIndex(data, k) == data.kind = "object" /\ k \in data.keys

\* mutant of BuildRow: extracted_data.get(k, '') instead of extracted_data[k]
BuildRowWithDefaults(to, data) ==
    IF data.kind = "object"
    THEN <<to,
           IF "city" \in data.keys THEN FieldValue("city") ELSE <<>>,
           IF "venue" \in data.keys THEN FieldValue("venue") ELSE <<>>,
           IF "dates" \in data.keys THEN FieldValue("dates") ELSE <<>>,
           Contacted>>
    ELSE NoRow

\* mutant of BuildRow: the email column takes the extracted email again
BuildRowExtractedEmail(to, data) ==
    IF CanIndex(data, "email") /\ CanIndex(data, "city") /\ CanIndex(data, "venue")
       /\ CanIndex(data, "dates")
    THEN <<FieldValue("email"), FieldValue("city"), FieldValue("venue"),
           FieldValue("dates"), Contacted>>
    ELSE NoRow

\* lines 202-208: row_data[0], or NoRow when building it raises
BuildRow(to, data) ==
    IF CanIndex(data, "city") /\ CanIndex(data, "venue") /\ CanIndex(data, "dates")
    THEN <<to, FieldValue("city"), FieldValue("venue"), FieldValue("dates"), Contacted>>
    ELSE NoRow

\* ------------------------------------------------------------------ state
VARIABLES
    pc,               \* where the process is: see Running
    last_message_id,  \* monitor_emails' local, None before the first match
    file,             \* content of last_processed.txt, NoFile when absent
    mailbox,          \* the SENT messages, oldest first; the last one is the latest
    sheet,            \* the rows of the 'Hold Grid' tab
    message,          \* the message fetched in this tick
    to_email,         \* value of its first To header
    email_content,    \* its decoded body
    row_data,         \* row_data[0]
    next_row,         \* update_spreadsheet's next_row
    crashes,          \* number of times the process was killed
    \* history of the current tick, cleared when the sleep ends
    tickOps,          \* collaborator calls attempted: list, fetch, model, read, write, save
    tickRow,          \* id of the message whose row the sheet accepted in this tick
    tickResponse,     \* the model's answer in this tick
    fileAtPoll,       \* content of the checkpoint file when the tick started
    \* history across ticks
    failedId,         \* id whose processing failed in the tick before this one
    appended,         \* ids of the messages whose row the sheet accepted, in order
    dirty,            \* a start found the file different from the last appended id
    loadedAt,         \* rows appended so far when the checkpoint was last loaded
    runFailed,        \* a tick of this run ended in the handler of line 220
    observed,         \* ids of the messages that were the latest at an answered list call
    crashSave         \* the save a kill interrupted (file before it, id being saved),
                      \* until the first poll of the next run has answered

vars ==
    <<pc, last_message_id, file, mailbox, sheet, message, to_email, email_content,
      row_data, next_row, crashes, tickOps, tickRow, tickResponse, fileAtPoll,
      failedId, appended, dirty, loadedAt, runFailed, observed, crashSave>>

locals == <<message, to_email, email_content, row_data, next_row>>
tickHist == <<tickOps, tickRow, tickResponse, fileAtPoll>>
world == <<file, mailbox, sheet>>

Sleeping == {"sleep_ok", "sleep_err"}
InTick == {"poll", "fetch", "parse", "extract", "sheet_read", "sheet_write",
           "save_open", "save_write"}
Running == {"start", "load"} \cup InTick \cup Sleeping

NoSave == [old |-> None, new |-> None]
Latest == mailbox[Len(mailbox)]

HeaderRow == << <<"E">>, <<"C">> >>
DataRow == << <<"a">>, <<"A">>, <<"V">>, <<"1">>, Contacted, <<"y">> >>
\* the sheets a run starts from: header only; header, a cleared row, an old row
InitSheets == { <<HeaderRow>>, <<HeaderRow, <<>>, DataRow>> }

Init ==
    /\ pc = "start"
    /\ last_message_id = None
    /\ file \in {NoFile, MsgId(1) \o <<"\n">>}
    /\ mailbox = <<>>
    /\ sheet \in InitSheets
    /\ message = NoMsg
    /\ to_email = None
    /\ email_content = ""
    /\ row_data = NoRow
    /\ next_row = 0
    /\ crashes = 0
    /\ tickOps = {}
    /\ tickRow = None
    /\ tickResponse = NoResponse
    /\ fileAtPoll = file
    /\ failedId = None
    /\ appended = <<>>
    /\ dirty = FALSE
    /\ loadedAt = 0
    /\ runFailed = FALSE
    /\ observed = {}
    /\ crashSave = NoSave

\* ----------------------------------------------------------------- startup
\* lines 147-152: credentials and service handles
StartOk ==
    /\ pc = "start"
    /\ pc' = "load"
    /\ UNCHANGED <<last_message_id, world, locals, crashes, tickHist, failedId,
                   appended, dirty, loadedAt, crashSave, runFailed>>

    /\ UNCHANGED observed
\* an exception there reaches line 224 and is re-raised: the process ends
StartFail ==
    /\ pc = "start"
    /\ pc' = "terminated"
    /\ UNCHANGED <<last_message_id, world, locals, crashes, tickHist, failedId,
                   appended, dirty, loadedAt, crashSave, runFailed>>

    /\ UNCHANGED observed
\* mutant of LoadValue: the stored id is not used
LoadValueForgets(f) == None

\* get_last_processed_id(): f.read().strip(), None on FileNotFoundError
LoadValue(f) == IF f = NoFile THEN None ELSE Strip(f)

LoadOk ==
    /\ pc = "load"
    /\ last_message_id' = LoadValue(file)
    /\ pc' = "poll"
    /\ fileAtPoll' = file
    /\ dirty' = (dirty \/ (appended # <<>> /\ file # appended[Len(appended)]))
    /\ loadedAt' = Len(appended)
    /\ runFailed' = FALSE
    /\ UNCHANGED <<world, locals, crashes, tickOps, tickRow, tickResponse, failedId,
                   appended, crashSave>>

    /\ UNCHANGED observed
\* mutant of LoadFail: `except Exception` at line 138, every error reads as None
LoadFailAsNone ==
    /\ pc = "load"
    /\ file # NoFile
    /\ last_message_id' = None
    /\ pc' = "poll"
    /\ UNCHANGED <<world, locals, crashes, tickHist, failedId, appended, dirty,
                   loadedAt, crashSave, runFailed>>

    /\ UNCHANGED observed
\* any other error of open/read is not caught at line 138: the process ends
LoadFail ==
    /\ pc = "load"
    /\ file # NoFile
    /\ pc' = "terminated"
    /\ UNCHANGED <<last_message_id, world, locals, crashes, tickHist, failedId,
                   appended, dirty, loadedAt, crashSave, runFailed>>

    /\ UNCHANGED observed
\* ------------------------------------------------------------ one tick
Fail == pc' = "sleep_err" /\ runFailed' = TRUE
Did(op) == tickOps' = tickOps \cup {op}

\* mutant of ListSent: the list call answers with the oldest message
ListSentOldest(box) == IF box = <<>> THEN <<>> ELSE <<[id |-> box[1].id]>>

\* messages().list(labelIds=['SENT'], maxResults=1).get('messages', [])
ListSent(box) == IF box = <<>> THEN <<>> ELSE <<[id |-> box[Len(box)].id]>>

\* mutant of IsNew: the id is not compared with the last one
IsNewAnyMessage(last, messages) == messages # <<>>

\* mutant of IsNew: == in place of !=
IsNewInverted(last, messages) == messages # <<>> /\ last = messages[1].id

\* line 167
IsNew(last, messages) == messages # <<>> /\ last # messages[1].id

\* lines 159-168
PollOk ==
    /\ pc = "poll"
    /\ Did("list")
    /\ fileAtPoll' = file
    /\ failedId' = None
    /\ observed' = IF mailbox = <<>> THEN observed ELSE observed \cup {Latest.id}
    /\ LET messages == ListSent(mailbox) IN
         IF IsNew(last_message_id, messages)
         THEN /\ last_message_id' = messages[1].id
              /\ pc' = "fetch"
         ELSE /\ pc' = "sleep_ok"
              /\ UNCHANGED last_message_id
    /\ crashSave' = NoSave
    /\ UNCHANGED <<world, locals, crashes, tickRow, tickResponse, appended, dirty,
                   loadedAt, runFailed>>

PollFail ==
    /\ pc = "poll"
    /\ Did("list")
    /\ fileAtPoll' = file
    /\ failedId' = None
    /\ Fail
    /\ UNCHANGED <<last_message_id, world, locals, crashes, tickRow, tickResponse,
                   appended, dirty, loadedAt, crashSave>>

    /\ UNCHANGED observed
\* messages().get(id=last_message_id, format='full')
GetMessage(box, i) == CHOOSE m \in {box[k] : k \in 1..Len(box)} : m.id = i

\* lines 172-176
FetchOk ==
    /\ pc = "fetch"
    /\ Did("fetch")
    /\ message' = GetMessage(mailbox, last_message_id)
    /\ pc' = "parse"
    /\ UNCHANGED <<last_message_id, world, to_email, email_content, row_data, next_row,
                   crashes, tickRow, tickResponse, fileAtPoll, failedId, appended,
                   dirty, loadedAt, crashSave, runFailed>>

    /\ UNCHANGED observed
FetchFail ==
    /\ pc = "fetch"
    /\ Did("fetch")
    /\ Fail
    /\ UNCHANGED <<last_message_id, world, locals, crashes, tickRow, tickResponse,
                   fileAtPoll, failedId, appended, dirty, loadedAt, crashSave>>

    /\ UNCHANGED observed
\* lines 179-196: recipient, then body
ParseOk ==
    /\ pc = "parse"
    /\ Recipient(message) # None
    /\ DecodeBody(message) # DecodeError
    /\ to_email' = Recipient(message)
    /\ email_content' = DecodeBody(message)
    /\ pc' = "extract"
    /\ UNCHANGED <<last_message_id, world, message, row_data, next_row, crashes,
                   tickHist, failedId, appended, dirty, loadedAt, crashSave, runFailed>>

    /\ UNCHANGED observed
ParseFail ==
    /\ pc = "parse"
    /\ Recipient(message) = None \/ DecodeBody(message) = DecodeError
    /\ to_email' = Recipient(message)
    /\ Fail
    /\ UNCHANGED <<last_message_id, world, message, email_content, row_data, next_row,
                   crashes, tickHist, failedId, appended, dirty, loadedAt, crashSave>>

    /\ UNCHANGED observed
\* lines 199-208 with extract_email_data: the call, json.loads, row_data
ExtractOk ==
    /\ pc = "extract"
    /\ Did("model")
    /\ \E r \in Responses :
         /\ JsonLoads(r).ok
         /\ BuildRow(to_email, JsonLoads(r).value) # NoRow
         /\ tickResponse' = r
         /\ row_data' = BuildRow(to_email, JsonLoads(r).value)
    /\ pc' = "sheet_read"
    /\ UNCHANGED <<last_message_id, world, message, to_email, email_content, next_row,
                   crashes, tickRow, fileAtPoll, failedId, appended, dirty, loadedAt,
                   crashSave, runFailed>>

    /\ UNCHANGED observed
\* the answer is no JSON (line 85), or building the row raises
ExtractBad ==
    /\ pc = "extract"
    /\ Did("model")
    /\ \E r \in Responses :
         /\ ~JsonLoads(r).ok \/ BuildRow(to_email, JsonLoads(r).value) = NoRow
         /\ tickResponse' = r
    /\ Fail
    /\ UNCHANGED <<last_message_id, world, locals, crashes, tickRow, fileAtPoll,
                   failedId, appended, dirty, loadedAt, crashSave>>

    /\ UNCHANGED observed
\* the model call itself raises (line 89)
ExtractCallFail ==
    /\ pc = "extract"
    /\ Did("model")
    /\ Fail
    /\ UNCHANGED <<last_message_id, world, locals, crashes, tickRow, tickResponse,
                   fileAtPoll, failedId, appended, dirty, loadedAt, crashSave>>

    /\ UNCHANGED observed
\* lines 96-111
SheetReadOk ==
    /\ pc = "sheet_read"
    /\ Did("read")
    /\ next_row' = NextRow(ReadRange(sheet))
    /\ pc' = "sheet_write"
    /\ UNCHANGED <<last_message_id, world, message, to_email, email_content, row_data,
                   crashes, tickRow, tickResponse, fileAtPoll, failedId, appended,
                   dirty, loadedAt, crashSave, runFailed>>

    /\ UNCHANGED observed
SheetReadFail ==
    /\ pc = "sheet_read"
    /\ Did("read")
    /\ Fail
    /\ UNCHANGED <<last_message_id, world, locals, crashes, tickRow, tickResponse,
                   fileAtPoll, failedId, appended, dirty, loadedAt, crashSave>>

    /\ UNCHANGED observed
\* lines 116-126
SheetWriteOk ==
    /\ pc = "sheet_write"
    /\ Did("write")
    /\ sheet' = UpdateRange(sheet, next_row, row_data)
    /\ tickRow' = last_message_id
    /\ appended' = Append(appended, last_message_id)
    /\ pc' = "save_open"
    /\ UNCHANGED <<last_message_id, file, mailbox, locals, crashes, tickResponse,
                   fileAtPoll, failedId, dirty, loadedAt, crashSave, runFailed>>

    /\ UNCHANGED observed
\* mutant of SheetWriteFail: the error of the update is swallowed
SheetWriteFailSwallowed ==
    /\ pc = "sheet_write"
    /\ Did("write")
    /\ pc' = "save_open"
    /\ UNCHANGED <<last_message_id, world, locals, crashes, tickRow, tickResponse,
                   fileAtPoll, failedId, appended, dirty, loadedAt, crashSave, runFailed>>

    /\ UNCHANGED observed
SheetWriteFail ==
    /\ pc = "sheet_write"
    /\ Did("write")
    /\ Fail
    /\ UNCHANGED <<last_message_id, world, locals, crashes, tickRow, tickResponse,
                   fileAtPoll, failedId, appended, dirty, loadedAt, crashSave>>

    /\ UNCHANGED observed
\* line 142: open(..., 'w') truncates the file
SaveOpenOk ==
    /\ pc = "save_open"
    /\ Did("save")
    /\ file' = <<>>
    /\ pc' = "save_write"
    /\ UNCHANGED <<last_message_id, mailbox, sheet, locals, crashes, tickRow,
                   tickResponse, fileAtPoll, failedId, appended, dirty, loadedAt,
                   crashSave, runFailed>>

    /\ UNCHANGED observed
SaveOpenFail ==
    /\ pc = "save_open"
    /\ Did("save")
    /\ Fail
    /\ UNCHANGED <<last_message_id, world, locals, crashes, tickRow, tickResponse,
                   fileAtPoll, failedId, appended, dirty, loadedAt, crashSave>>

    /\ UNCHANGED observed
\* line 143 and the close of the with block: the id reaches the file
SaveWriteOk ==
    /\ pc = "save_write"
    /\ file' = last_message_id
    /\ pc' = "sleep_ok"
    /\ UNCHANGED <<last_message_id, mailbox, sheet, locals, crashes, tickHist,
                   failedId, appended, dirty, loadedAt, crashSave, runFailed>>

    /\ UNCHANGED observed
\* mutant of SaveWriteFail: the error of the save leaves the loop
SaveWriteFailEscapes ==
    /\ pc = "save_write"
    /\ pc' = "terminated"
    /\ UNCHANGED <<last_message_id, world, locals, crashes, tickHist, failedId,
                   appended, dirty, loadedAt, crashSave, runFailed>>

    /\ UNCHANGED observed
\* the write or the flush raises: the file stays truncated
SaveWriteFail ==
    /\ pc = "save_write"
    /\ Fail
    /\ UNCHANGED <<last_message_id, world, locals, crashes, tickHist, failedId,
                   appended, dirty, loadedAt, crashSave>>

    /\ UNCHANGED observed
ClearLocals ==
    /\ message' = NoMsg
    /\ to_email' = None
    /\ email_content' = ""
    /\ row_data' = NoRow
    /\ next_row' = 0

ClearTick ==
    /\ tickOps' = {}
    /\ tickRow' = None
    /\ tickResponse' = NoResponse

\* time.sleep(60) at line 218 or 222 returns; the tick's locals are dead
Wake ==
    /\ pc \in Sleeping
    /\ pc' = "poll"
    /\ failedId' = IF pc = "sleep_err" /\ "fetch" \in tickOps /\ tickRow = None
                   THEN last_message_id ELSE None
    /\ ClearLocals
    /\ ClearTick
    /\ UNCHANGED <<last_message_id, world, crashes, fileAtPoll, appended, dirty, loadedAt,
                   crashSave, runFailed>>

    /\ UNCHANGED observed
\* ------------------------------------------------------------ environment
\* the operator sends a mail: it becomes the latest SENT message
Send ==
    /\ Len(mailbox) < MaxMsgs
    /\ \E sh \in MsgShapes :
         mailbox' = Append(mailbox, Msg(MsgId(Len(mailbox) + 1), sh))
    /\ UNCHANGED <<pc, last_message_id, file, sheet, locals, crashes, tickHist,
                   failedId, appended, dirty, loadedAt, crashSave, runFailed>>

    /\ UNCHANGED observed
\* the process is killed; the file, the sheet and the mailbox stay as they are
Crash ==
    /\ pc \in Running
    /\ crashes < MaxCrashes
    /\ crashes' = crashes + 1
    /\ pc' = "down"
    /\ last_message_id' = None
    /\ ClearLocals
    /\ ClearTick
    /\ failedId' = None
    /\ crashSave' = IF pc \in {"save_open", "save_write"}
                    THEN [old |-> fileAtPoll, new |-> last_message_id]
                    ELSE NoSave
    /\ runFailed' = FALSE
    /\ UNCHANGED <<world, fileAtPoll, appended, dirty, loadedAt>>

    /\ UNCHANGED observed
\* the program is run again (line 228)
Restart ==
    /\ pc \in {"down", "terminated"}
    /\ pc' = "start"
    /\ UNCHANGED <<last_message_id, world, locals, crashes, tickHist, failedId,
                   appended, dirty, loadedAt, crashSave, runFailed>>

    /\ UNCHANGED observed
Step ==
    \/ StartOk \/ StartFail \/ LoadOk \/ LoadFail
    \/ PollOk \/ PollFail \/ FetchOk \/ FetchFail \/ ParseOk \/ ParseFail
    \/ ExtractOk \/ ExtractBad \/ ExtractCallFail
    \/ SheetReadOk \/ SheetReadFail \/ SheetWriteOk \/ SheetWriteFail
    \/ SaveOpenOk \/ SaveOpenFail \/ SaveWriteOk \/ SaveWriteFail
    \/ Wake

Next == Step \/ Send \/ Crash \/ Restart

Spec == Init /\ [][Next]_vars

\* The process is never killed; the interpreter runs the next statement of a
\* running process, so a step of the program that can be taken is taken.
NextLive == Step \/ Send \/ Restart
LiveSpec == Init /\ [][NextLive]_vars /\ WF_vars(Step)

\* ------------------------------------------- update_spreadsheet on its own
\* The append applied to every sheet of up to MaxSheetRows rows built from
\* these rows: empty, email cleared but city kept, blank email, email, padded
\* email, only a note in column F.
RowShapes ==
    { <<>>,
      << <<>>, <<"C">> >>,
      << <<" ">> >>,
      << <<"a">>, <<"A">> >>,
      << <<" ", "b">>, <<>>, <<>>, <<>>, <<>>, <<"y">> >>,
      << <<>>, <<>>, <<>>, <<>>, <<>>, <<"n">> >> }
Sheets == UNION { [1..n -> RowShapes] : n \in 0..MaxSheetRows }
SampleRow == BuildRow(<<"a">>, Response("object", Keys))

SheetInit ==
    /\ pc = "sheet_read"
    /\ last_message_id = MsgId(1)
    /\ file = NoFile
    /\ mailbox = <<Msg(MsgId(1), Shape(ToHeaders, "aGk", NoParts))>>
    /\ sheet \in Sheets
    /\ message = Latest
    /\ to_email = <<"a">>
    /\ email_content = "hi"
    /\ row_data = SampleRow
    /\ next_row = 0
    /\ crashes = 0
    /\ tickOps = {"list", "fetch", "model"}
    /\ tickRow = None
    /\ tickResponse = Response("object", Keys)
    /\ fileAtPoll = NoFile
    /\ failedId = None
    /\ appended = <<>>
    /\ dirty = FALSE
    /\ loadedAt = 0
    /\ runFailed = FALSE
    /\ observed = {MsgId(1)}
    /\ crashSave = NoSave

SheetNext == SheetReadOk \/ SheetReadFail \/ SheetWriteOk \/ SheetWriteFail

SheetSpec == SheetInit /\ [][SheetNext]_vars

\* ----------------------------------------------------------------- claims
\* a row whose first column holds something other than blanks
Filled(row) ==
    /\ Len(row) >= 1
    /\ \E j \in 1..Len(row[1]) : row[1][j] \notin Whitespace

\* a row with nothing in any column
EmptyRowP(row) == \A c \in 1..Len(row) : row[c] = <<>>

\* a header row, n data rows with an email, then empty rows only
HeaderPlusN(sh, n) ==
    /\ Len(sh) >= n + 1
    /\ \A i \in 1..(n + 1) : Filled(sh[i])
    /\ \A i \in (n + 2)..Len(sh) : EmptyRowP(sh[i])

\* C5: for a sheet of one header row, N data rows with an email in column A and
\* then only empty rows, the write of update_spreadsheet puts the five values
\* into row N+2 and changes no other row.
C5_AppendPosition ==
    [][\A n \in 0..(MaxSheetRows + 1) :
         (pc = "sheet_write" /\ pc' = "save_open" /\ HeaderPlusN(sheet, n))
         => /\ next_row = n + 2
            /\ Len(sheet') >= n + 2
            /\ SubSeq(sheet'[n + 2], 1, 5) = row_data
            /\ \A i \in 1..Len(sheet) : i # n + 2 => sheet'[i] = sheet[i]]_vars

\* two data rows under the header: the row went to row 4
C5_Witness ==
    /\ pc = "save_open"
    /\ next_row = 4
    /\ Len(sheet) = 4
    /\ \A i \in 1..3 : Filled(sheet[i])
    /\ SubSeq(sheet[4], 1, 5) = row_data

\* C6 as stated: whatever the sheet holds, the target row lies after every row
\* with an email in column A.
C6_AfterLastFilled ==
    pc = "sheet_write" => \A i \in 1..Len(sheet) : Filled(sheet[i]) => next_row > i

\* the rows with an email are the first rows of the sheet
FilledIsPrefix(sh) ==
    \A i, j \in 1..Len(sh) : (i < j /\ Filled(sh[j])) => Filled(sh[i])

\* C6 amended: when no row without an email precedes a row with one, the
\* target row is the row right after the last row with an email.
C6_AfterLastFilledNoGap ==
    (pc = "sheet_write" /\ FilledIsPrefix(sheet))
    => /\ \A i \in 1..Len(sheet) : Filled(sheet[i]) => next_row > i
       /\ next_row = 1 \/ Filled(sheet[next_row - 1])

C6_Witness ==
    /\ pc = "sheet_write"
    /\ FilledIsPrefix(sheet)
    /\ Len(sheet) = 3
    /\ Filled(sheet[2])
    /\ ~Filled(sheet[3])
    /\ next_row = 3

\* the poll of a tick has answered
PollAnswered == pc = "poll" /\ pc' \in {"fetch", "sleep_ok"}

\* C1 as stated: a message whose processing failed in one tick, and which is
\* still the latest sent message at the next tick, is processed again there.
C1_RetryNextTick ==
    [][(PollAnswered /\ failedId # None /\ mailbox # <<>> /\ Latest.id = failedId)
       => pc' = "fetch"]_vars

\* C2: the checkpoint file changes only inside a save that follows the sheet
\* accepting the row of that same id in the same tick, and a tick that fails
\* before the save leaves the file as it was when the tick started.
C2_CheckpointOnlyAfterAppend ==
    [][/\ file' # file
          => /\ pc \in {"save_open", "save_write"}
             /\ "write" \in tickOps
             /\ tickRow # None
             /\ tickRow = last_message_id
             /\ file' \in {<<>>, tickRow}
       /\ (pc' = "sleep_err" /\ "save" \notin tickOps') => file' = fileAtPoll']_vars

C2_Witness ==
    /\ pc = "sleep_ok"
    /\ "save" \in tickOps
    /\ tickRow = last_message_id
    /\ file = tickRow
    /\ file # fileAtPoll

\* C3: as long as no start of the process found a checkpoint file that misses
\* the last appended id (a save that did not complete), no message has more
\* than one row.
C3_AtMostOneRow ==
    ~dirty => \A i, j \in 1..Len(appended) : i # j => appended[i] # appended[j]

\* the process was stopped and started again after the row and the save, and
\* the tick after the restart did nothing for the same latest message
C3_Witness ==
    /\ ~dirty
    /\ loadedAt = 1
    /\ mailbox # <<>>
    /\ appended = <<Latest.id>>
    /\ last_message_id = Latest.id
    /\ pc = "sleep_ok"
    /\ tickOps = {"list"}

\* C4: a poll that finds no sent message, or whose latest id equals the id in
\* memory or the id in the checkpoint file, goes to the sleep of line 218 with
\* no call but the list call and no change of the sheet, the file or the id.
C4_NoOpTick ==
    [][(PollAnswered
        /\ (mailbox = <<>> \/ Latest.id = last_message_id \/ Latest.id = file))
       => /\ pc' = "sleep_ok"
          /\ tickOps' = {"list"}
          /\ UNCHANGED <<sheet, file, last_message_id, appended>>]_vars

C4_Witness ==
    /\ pc = "sleep_ok"
    /\ tickOps = {"list"}
    /\ mailbox # <<>>
    /\ Latest.id = last_message_id
    /\ Latest.id = file

\* C7 as stated: after a kill during save_last_processed_id, the id loaded at
\* the next start is the one the file held before the save or the one being saved.
C7_SaveCrashAtomic ==
    [][(pc = "load" /\ pc' = "poll" /\ crashSave # NoSave)
       => last_message_id' \in {LoadValue(crashSave.old), crashSave.new}]_vars

\* the tick stopped at the sleep of line 222 before touching sheet or file
FailedBeforeSheet ==
    /\ pc = "sleep_err"
    /\ tickOps \cap {"read", "write", "save"} = {}
    /\ tickRow = None
    /\ file = fileAtPoll

\* C8 as stated: an answer that is no JSON, or lacks any of the four keys,
\* fails the tick with no sheet call and no checkpoint write.
C8_MalformedFails ==
    (tickResponse # NoResponse
     /\ (tickResponse.kind # "object" \/ \E k \in Keys : k \notin tickResponse.keys))
    => FailedBeforeSheet

\* C8 amended: an answer that is no JSON, no JSON object, or lacks any of
\* city, venue, dates fails the tick with no sheet call and no checkpoint
\* write; an answer lacking only email goes on to the append.
C8_MalformedFailsUsedKeys ==
    /\ (tickResponse # NoResponse
        /\ (tickResponse.kind # "object"
            \/ \E k \in {"city", "venue", "dates"} : k \notin tickResponse.keys))
       => FailedBeforeSheet
    /\ tickResponse = Response("object", Keys \ {"email"})
       => (pc = "sheet_read" \/ "read" \in tickOps)

C8_Witness ==
    /\ pc = "sleep_err"
    /\ tickResponse = Response("object", Keys \ {"dates"})

ToNames == {<<"T", "o">>, <<"t", "o">>, <<"T", "O">>, <<"t", "O">>}
HasToHeader(m) == \E k \in 1..Len(m.headers) : m.headers[k].name \in ToNames

\* C9: once the recipient lookup has run on a fetched message without a To
\* header, the tick is at the sleep of line 222 with no model call, no sheet
\* call and no checkpoint write.
C9_MissingToHeader ==
    (message # NoMsg /\ ~HasToHeader(message) /\ pc # "parse")
    => /\ FailedBeforeSheet
       /\ "model" \notin tickOps
       /\ tickResponse = NoResponse

C9_Witness ==
    /\ pc = "sleep_err"
    /\ message # NoMsg
    /\ ~HasToHeader(message)
    /\ "fetch" \in tickOps

InLoop == InTick \cup Sleeping

\* C10: the process ends only from the startup steps; once in the loop it
\* stays there; every tick ends in a sleep, entered only from a tick and left
\* only for the next poll; and every tick reaches its sleep and every sleep
\* reaches the next poll.
C10_LoopForever ==
    /\ [][(pc' = "terminated") => (pc \in {"start", "load", "terminated"})]_vars
    /\ [][(pc \in InLoop) => (pc' \in InLoop)]_vars
    /\ [][(pc \in InTick /\ pc' \notin InTick) => pc' \in Sleeping]_vars
    /\ [][(pc \in Sleeping /\ pc' # pc) => pc' = "poll"]_vars
    /\ [][(pc' = "poll" /\ pc # "poll") => pc \in Sleeping \cup {"load"}]_vars
    /\ (pc \in InTick) ~> (pc \in Sleeping)
    /\ (pc \in Sleeping) ~> (pc = "poll")

\* the save failed and the loop is at its sleep all the same
C10_Witness ==
    /\ pc = "sleep_err"
    /\ "save" \in tickOps

\* the value of the first header whose name is To in any letter case
FirstToValue(m) ==
    LET K == {k \in 1..Len(m.headers) : m.headers[k].name \in ToNames}
        k0 == CHOOSE k \in K : \A j \in K : k <= j
    IN  m.headers[k0].value

\* columns A..E of a row
ColsAE(row) == [c \in 1..5 |-> Cell(row, c)]

\* the sheet accepts the row of this tick
RowAccepted == pc = "sheet_write" /\ pc' = "save_open"

\* the tick ran to the end: row written, save completed
TickSucceeded == pc = "sleep_ok" /\ "save" \in tickOps

\* C11: in a tick that succeeds for a new message M the sheet is written once,
\* one row changes, its columns A..E are the five values (first To header,
\* extracted city, venue, dates, CONTACTED), and at the end of the tick the
\* checkpoint file holds M.
C11_RowAndCheckpoint ==
    [][/\ RowAccepted
          => /\ "write" \notin tickOps
             /\ Len(row_data) = 5
             /\ row_data = <<FirstToValue(message), FieldValue("city"),
                             FieldValue("venue"), FieldValue("dates"), Contacted>>
             /\ \E n \in 1..Len(sheet') :
                  /\ ColsAE(sheet'[n]) = row_data
                  /\ sheet'[n] # Cell(sheet, n)
                  /\ \A i \in 1..Len(sheet') : i # n => sheet'[i] = Cell(sheet, i)
             /\ appended' = Append(appended, message.id)
       /\ TickSucceeded'
          => /\ file' = message'.id
             /\ tickRow' = message'.id
             /\ last_message_id' = message'.id]_vars

\* a multi-header message went through: the first To value is in column A
C11_Witness ==
    /\ TickSucceeded
    /\ message.headers = MixedHeaders
    /\ file = message.id
    /\ sheet[next_row][1] = <<"b">>
    /\ Len(appended) = 1

\* C12: update_spreadsheet reads without changing the sheet; its one write
\* sets columns A..E of one row, keeps the other columns of that row and every
\* other row; and when the read or the write fails the sheet is as before and
\* the caller's handler has the error.
C12_AppendEffect ==
    [][/\ RowAccepted
          => /\ "write" \notin tickOps
             /\ next_row \in 1..(Len(sheet) + 1)
             /\ Len(sheet') = (IF next_row > Len(sheet) THEN next_row ELSE Len(sheet))
             /\ ColsAE(sheet'[next_row]) = row_data
             /\ \A c \in 6..(Len(Cell(sheet, next_row)) + Len(sheet'[next_row])) :
                  Cell(sheet'[next_row], c) = Cell(Cell(sheet, next_row), c)
             /\ \A i \in 1..Len(sheet) : i # next_row => sheet'[i] = sheet[i]
       /\ (pc = "sheet_read" \/ (pc = "sheet_write" /\ pc' # "save_open"))
          => sheet' = sheet
       /\ (pc \in {"sheet_read", "sheet_write"} /\ pc' \notin {"sheet_write", "save_open"})
          => pc' = "sleep_err"]_vars

\* the row went into a row that held only a note in column F, which is kept
C12_Witness ==
    /\ pc = "save_open"
    /\ Len(sheet) = 3
    /\ next_row = 2
    /\ ColsAE(sheet[2]) = row_data
    /\ Cell(sheet[2], 6) = <<"n">>
    /\ Filled(sheet[3])

\* C13: when the process was killed after the sheet accepted the row of a
\* message and before its save completed, the first poll of the next run that
\* still finds this message as the latest starts processing it again, and the
\* row the sheet then accepts is one more row: the earlier rows stay.
C13_CrashWindowDuplicate ==
    [][/\ (PollAnswered /\ crashSave # NoSave /\ mailbox # <<>>
           /\ Latest.id = crashSave.new)
          => /\ appended # <<>>
             /\ appended[Len(appended)] = crashSave.new
             /\ pc' = "fetch"
             /\ last_message_id' = crashSave.new
       /\ (RowAccepted /\ \E i \in 1..Len(appended) : appended[i] = last_message_id)
          => /\ sheet'[next_row] # Cell(sheet, next_row)
             /\ ~Filled(Cell(sheet, next_row))
             /\ \A i \in 1..Len(sheet) : i # next_row => sheet'[i] = sheet[i]]_vars

\* after one kill the same message has two rows, one under the other
C13_Witness ==
    /\ TickSucceeded
    /\ crashes = 1
    /\ appended = <<message.id, message.id>>
    /\ next_row > 2
    /\ ColsAE(sheet[next_row]) = ColsAE(sheet[next_row - 1])
    /\ file = message.id

\* t is f without its leading and trailing blanks
IsTrimOf(t, f) ==
    \E a \in 0..Len(f) :
      /\ a + Len(t) <= Len(f)
      /\ t = SubSeq(f, a + 1, a + Len(t))
      /\ \A i \in 1..Len(f) : (i <= a \/ i > a + Len(t)) => f[i] \in Whitespace
      /\ t = <<>> \/ (t[1] \notin Whitespace /\ t[Len(t)] \notin Whitespace)

\* C14: the checkpoint is read in the one step between startup and the first
\* poll; an absent file gives None and the first poll that finds a message
\* then processes it; a present file gives its trimmed content; a read error
\* ends the process with no poll made; and inside the loop the id in memory
\* changes only at a poll, to the latest id, never back to the file's content.
C14_LoadOnceAtStartup ==
    [][/\ (pc = "load" /\ pc' = "poll")
          => /\ tickOps' = {}
             /\ IF file = NoFile THEN last_message_id' = None
                ELSE IsTrimOf(last_message_id', file)
       /\ (pc' = "load" /\ pc # "load") => pc = "start"
       /\ (pc = "load" /\ pc' \notin {"load", "poll", "down"})
          => /\ pc' = "terminated"
             /\ file # NoFile
             /\ tickOps' = {}
             /\ UNCHANGED <<world, last_message_id>>
       /\ (PollAnswered /\ last_message_id = None /\ mailbox # <<>>)
          => /\ pc' = "fetch"
             /\ last_message_id' = Latest.id
       /\ (pc \in InLoop /\ pc' \in InLoop /\ last_message_id' # last_message_id)
          => /\ pc = "poll"
             /\ last_message_id' = Latest.id]_vars

\* first run: no file, the latest message is being processed
C14_Witness ==
    /\ pc = "fetch"
    /\ file = NoFile
    /\ fileAtPoll = NoFile
    /\ crashes = 0
    /\ appended = <<>>
    /\ mailbox # <<>>
    /\ last_message_id = Latest.id

\* the body of the fetched message has been decoded
Decoded == message # NoMsg /\ (pc = "extract" \/ "model" \in tickOps)

\* the payload the decoding is to take: the direct one, else the first part's
PayloadOf(m) ==
    IF m.data # NoData THEN m.data
    ELSE IF m.parts # NoParts /\ Len(m.parts) >= 1 THEN m.parts[1]
    ELSE NoData

\* C15: the decoded text is the text of the direct payload when there is one
\* and else of the first part's payload, so it is the same for any message
\* with that payload in either place; and a fetched message with neither a
\* direct payload nor parts ends the tick at the sleep of line 222 with no
\* model call, no sheet call and no checkpoint write.
C15_DecodeSelection ==
    /\ Decoded
       => /\ PayloadOf(message) # NoData
          /\ email_content = B64Decode(PayloadOf(message))
          /\ email_content # DecodeError
          /\ \A sh \in MsgShapes :
               PayloadOf(sh) = PayloadOf(message) => DecodeBody(sh) = email_content
    /\ (message # NoMsg /\ pc # "parse" /\ message.data = NoData
        /\ (message.parts = NoParts \/ message.parts = <<>>))
       => /\ FailedBeforeSheet
          /\ "model" \notin tickOps
          /\ tickResponse = NoResponse

\* a multi-part message decoded to the text of its first part, which is also
\* the text of the direct-payload message with that payload
C15_Witness ==
    /\ pc = "extract"
    /\ message.data = NoData
    /\ message.parts = <<"aGk", "Ynll">>
    /\ email_content = "hi"
    /\ email_content = DecodeBody(Shape(ToHeaders, "aGk", NoParts))

\* number of rows the read returns: the index of the last row holding anything
LastNonEmptyRow(sh) ==
    LET S == {i \in 1..Len(sh) : ~EmptyRowP(sh[i])}
    IN  IF S = {} THEN 0 ELSE CHOOSE i \in S : \A j \in S : j <= i

\* C16: the row update_spreadsheet is about to write has no email in column A
\* (empty, blanks only, or no such row), every row above it has one, and its
\* number is between 1 and the number of rows read plus one.
C16_TargetRowIsFree ==
    pc = "sheet_write"
    => /\ next_row \in 1..(LastNonEmptyRow(sheet) + 1)
       /\ ~Filled(Cell(sheet, next_row))
       /\ \A i \in 1..(next_row - 1) : Filled(sheet[i])

\* a row with only blanks in column A between two rows with an email is the target
C16_Witness ==
    /\ pc = "sheet_write"
    /\ Len(sheet) = 3
    /\ Filled(sheet[1])
    /\ sheet[2] = << <<" ">> >>
    /\ Filled(sheet[3])
    /\ next_row = 2

Processing == InTick \ {"poll"}

Superseded(i) == i \in 1..(Len(mailbox) - 1) /\ mailbox[i].id \notin observed

NeverProcessed(i) ==
    /\ message # NoMsg => message.id # mailbox[i].id
    /\ tickRow # mailbox[i].id
    /\ \A k \in 1..Len(appended) : appended[k] # mailbox[i].id

\* C18: a tick fetches at most one message and gets at most one row accepted,
\* both for the message that was the latest at the tick's list call; a message
\* that stopped being the latest before any list call answered with it is never
\* fetched and never gets a row, in this run or a later one.
C18_OnlyLatestProcessed ==
    /\ [](\A i \in 1..Len(mailbox) : Superseded(i) => NeverProcessed(i))
    /\ [][/\ (message' # message /\ message' # NoMsg)
             => /\ pc = "fetch"
                /\ "fetch" \notin tickOps
                /\ message = NoMsg
                /\ message'.id = last_message_id
                /\ message'.id \in observed
          /\ appended' # appended
             => /\ tickRow = None
                /\ appended' = Append(appended, message.id)
                /\ tickRow' = message.id
                /\ message.id \in observed]_vars

\* two messages were sent before the first list call answered; the second got
\* its row, the process was killed and started again, and the first has still
\* not been fetched
C18_Witness ==
    /\ Len(mailbox) >= 2
    /\ Superseded(1)
    /\ appended = <<mailbox[2].id>>
    /\ crashes >= 1
    /\ pc = "sleep_ok"
    /\ tickOps = {"list"}

====
